---- MODULE Spec2Model ----
(***************************************************************************)
(* Model of script.py: the per-user extract / join / aggregate pipeline    *)
(* (load_user_data, get_avg_review_count) and the thread-pool orchestrator *)
(* around it (process_users).                                              *)
(*                                                                         *)
(* Numbers that pandas/numpy hold as floats are kept as exact rationals    *)
(* [nan, num, den]; after round(.., 2) the denominator is 100, so `num' is *)
(* the value in hundredths.                                                *)
(***************************************************************************)
EXTENDS Integers, Sequences, FiniteSets, TLC

VARIABLES
    store,        \* the external columnar store: user_id -> its three relations
    user_ids,     \* process_users argument: the input list
    max_workers,  \* process_users argument: size of the worker pool
    pc,           \* position of the thread running process_users
    tpc,          \* position of each submitted task (one per input position)
    df,           \* locals of each task's load_user_data call
    ran,          \* the stages of load_user_data each task has run
    log,          \* the diagnostics each task has printed
    future,       \* the Future of each input position
    completion,   \* input positions in the order their tasks finished
    results,      \* process_users local `results'
    file,         \* the lines of the output file
    wi,           \* how many of `results' the write loop has written
    returned      \* the value process_users returned

vars == <<store, user_ids, max_workers, pc, tpc, df, ran, log, future,
          completion, results, file, wi, returned>>

----------------------------------------------------------------------------
(* Bounds of the model *)

MaxRevlogs == 3
MaxCards == 2
MaxDecks == 2
MaxUsers == 2
MaxWorkers == 2

CardIds == {1, 2}
NoteIds == {1, 2}
DeckIds == {1, 2}
PresetIds == {1, 2}
\* state 2 is the "review" state; 1 stands for the learning states
States == {1, 2}
\* 1 = fail, 3 = a pass, 5 = a value outside the mapping {1, 2, 3, 4}
Ratings == {1, 3, 5}

RevlogRows == [card_id : CardIds, state : States, rating : Ratings]
CardRows == [card_id : CardIds, note_id : NoteIds, deck_id : DeckIds]
DeckRows == [deck_id : DeckIds, preset_id : PresetIds]

\* how a user's slice of the store can be broken
Faults == {"none", "cards_unreadable", "no_note_id"}

----------------------------------------------------------------------------
(* Helpers on sequences and sets *)

Range(s) == {s[i] : i \in 1..Len(s)}

\* the elements of S in some order
SetToSeq(S) == CHOOSE f \in [1..Cardinality(S) -> S] : Range(f) = S

\* the sequences of ss, one after the other
Flatten(ss) ==
    LET f[k \in 0..Len(ss)] == IF k = 0 THEN <<>> ELSE f[k - 1] \o ss[k]
    IN  f[Len(ss)]

Sum(s) ==
    LET f[k \in 0..Len(s)] == IF k = 0 THEN 0 ELSE f[k - 1] + s[k]
    IN  f[Len(s)]

SeqsUpTo(S, n) == UNION {[1..k -> S] : k \in 0..n}

SubsetsUpTo(S, n) == {T \in SUBSET S : Cardinality(T) <= n}

----------------------------------------------------------------------------
(* Floats *)

NaN == [nan |-> TRUE, num |-> 0, den |-> 1]

Float(n, d) == [nan |-> FALSE, num |-> n, den |-> d]

\* numpy rounds x * 100 to the nearest integer, ties to even
RoundHalfEven(n, d) ==
    LET q == n \div d
        r == n % d
    IN  IF 2 * r < d THEN q
        ELSE IF 2 * r > d THEN q + 1
        ELSE IF q % 2 = 0 THEN q ELSE q + 1

round2(x) == IF x.nan THEN NaN ELSE Float(RoundHalfEven(100 * x.num, x.den), 100)

\* a missing value of a Series
NA == [na |-> TRUE, v |-> 0]

Val(n) == [na |-> FALSE, v |-> n]

\* the mean of nothing taken for 0
mean_zero_when_empty(s) ==
    LET valid == SelectSeq(s, LAMBDA x : ~x.na)
    IN  IF valid = <<>> THEN [nan |-> FALSE, num |-> 0, den |-> 1]
        ELSE [nan |-> FALSE, num |-> Sum([i \in 1..Len(valid) |-> valid[i].v]),
              den |-> Len(valid)]

\* Series.mean(): missing values are skipped, the mean of nothing is NaN
mean(s) ==
    LET valid == SelectSeq(s, LAMBDA x : ~x.na)
    IN  IF valid = <<>> THEN NaN
        ELSE Float(Sum([i \in 1..Len(valid) |-> valid[i].v]), Len(valid))

----------------------------------------------------------------------------
(* The store *)

\* pd.read_parquet(".../revlogs", filters=[("user_id", "=", user_id)])
read_revlogs(u) == store[u].revlogs

\* pd.read_parquet(".../cards", filters=[("user_id", "=", user_id)])
read_cards(u) == store[u].cards

\* pd.read_parquet(".../decks", filters=[("user_id", "=", user_id)])
read_decks(u) == store[u].decks

----------------------------------------------------------------------------
(* load_user_data: numbering and joining *)

\* DataFrame.empty of the reviews or of the joined rows
empty(rows) == rows = <<>>

\* a check that never finds the relation empty
empty_table_never(table) == FALSE

\* DataFrame.empty of the cards or of the decks
empty_table(table) == table = {}

\* df_revlogs["review_th"] = range(1, revlogs_count + 1)
with_review_th(rows) ==
    [i \in 1..Len(rows) |->
        [review_th |-> i, card_id |-> rows[i].card_id,
         state |-> rows[i].state, rating |-> rows[i].rating]]

\* df_revlogs.merge(df_cards, on="card_id", how="inner"): every left row,
\* in the order of the left rows, once per right row with the same key
merge_cards(left, cards) ==
    Flatten([i \in 1..Len(left) |->
        LET m == SetToSeq({c \in cards : c.card_id = left[i].card_id})
        IN  [j \in 1..Len(m) |->
                [review_th |-> left[i].review_th, card_id |-> left[i].card_id,
                 state |-> left[i].state, rating |-> left[i].rating,
                 note_id |-> m[j].note_id, deck_id |-> m[j].deck_id]]])

\* how="left": a left row that finds no partner is kept (its missing columns
\* shown here as 0)
merge_decks_left(left, decks) ==
    Flatten([i \in 1..Len(left) |->
        LET m == SetToSeq({d \in decks : d.deck_id = left[i].deck_id})
        IN  IF m = <<>>
            THEN <<[review_th |-> left[i].review_th, card_id |-> left[i].card_id,
                    state |-> left[i].state, rating |-> left[i].rating,
                    note_id |-> left[i].note_id, deck_id |-> left[i].deck_id,
                    preset_id |-> 0]>>
            ELSE [j \in 1..Len(m) |->
                    [review_th |-> left[i].review_th, card_id |-> left[i].card_id,
                     state |-> left[i].state, rating |-> left[i].rating,
                     note_id |-> left[i].note_id, deck_id |-> left[i].deck_id,
                     preset_id |-> m[j].preset_id]]])

\* .merge(df_decks, on="deck_id", how="inner")
merge_decks(left, decks) ==
    Flatten([i \in 1..Len(left) |->
        LET m == SetToSeq({d \in decks : d.deck_id = left[i].deck_id})
        IN  [j \in 1..Len(m) |->
                [review_th |-> left[i].review_th, card_id |-> left[i].card_id,
                 state |-> left[i].state, rating |-> left[i].rating,
                 note_id |-> left[i].note_id, deck_id |-> left[i].deck_id,
                 preset_id |-> m[j].preset_id]]])

\* the two merges of lines 46-48, in their order
join(df_revlogs, df_cards, df_decks) ==
    merge_decks(merge_cards(df_revlogs, df_cards), df_decks)

----------------------------------------------------------------------------
(* get_avg_review_count: the statistics *)

\* df_join[name]
column(df_join, name) == [i \in 1..Len(df_join) |-> df_join[i][name]]

\* Series.nunique()
nunique(col) == Cardinality(Range(col))

\* Series.value_counts(): one count per distinct value
value_counts(col) ==
    LET vs == SetToSeq(Range(col))
    IN  [k \in 1..Len(vs) |->
            Val(Cardinality({i \in 1..Len(col) : col[i] = vs[k]}))]

\* Series.map({1: 0, 2: 1, 3: 1, 4: 1}): a value that is no key becomes missing
rating_map(r) ==
    IF r = 1 THEN Val(0)
    ELSE IF r \in {2, 3, 4} THEN Val(1)
    ELSE NA

\* the filter left out: every row counts
review_state_rows_all(df_join) == df_join

\* df_join[df_join["state"] == 2]
review_state_rows(df_join) == SelectSeq(df_join, LAMBDA row : row.state = 2)

\* round(df_join[df_join["state"] == 2]["rating"].map({...}).mean(), 2)
retention_rate(df_join) ==
    LET ratings == column(review_state_rows(df_join), "rating")
    IN  round2(mean([i \in 1..Len(ratings) |-> rating_map(ratings[i])]))

\* the mean taken over the rows instead of over the groups
avg_review_count_per_row(df_join, name) ==
    round2(Float(nunique(column(df_join, name)), Len(df_join)))

\* df_join[name].value_counts().mean().round(2).item()
avg_review_count(df_join, name) ==
    round2(mean(value_counts(column(df_join, name))))

\* the result dict of lines 85-93
result_record(user_id, df_join) ==
    [user_id |-> user_id,
     revlogs_count |-> Len(df_join),
     card_count |-> nunique(column(df_join, "card_id")),
     note_count |-> nunique(column(df_join, "note_id")),
     avg_review_count_per_note |-> avg_review_count(df_join, "note_id"),
     avg_review_count_per_card |-> avg_review_count(df_join, "card_id"),
     retention_rate |-> retention_rate(df_join)]

----------------------------------------------------------------------------
(* Values that cross the task boundary *)

None == [none |-> TRUE]

Pending == [done |-> FALSE, raised |-> FALSE, value |-> None]

\* a float as json.dumps prints it: a number to 2 decimals, or the token NaN
json_float(x) ==
    IF x.nan THEN [tok |-> "NaN", h |-> 0] ELSE [tok |-> "num", h |-> x.num]

\* json.dumps(result) + "\n"
json_dumps(r) ==
    IF r = None THEN [null |-> TRUE]
    ELSE [user_id |-> r.user_id,
          revlogs_count |-> r.revlogs_count,
          card_count |-> r.card_count,
          note_count |-> r.note_count,
          avg_review_count_per_note |-> json_float(r.avg_review_count_per_note),
          avg_review_count_per_card |-> json_float(r.avg_review_count_per_card),
          retention_rate |-> json_float(r.retention_rate)]

\* what an earlier run left in the output file
StaleFile == <<[user_id |-> 0, stale |-> TRUE]>>

----------------------------------------------------------------------------
(* Initial states *)

Users == 1..5

\* a store holding one user of each kind the pipeline tells apart
Catalogue ==
    [u \in Users |->
        CASE u = 1 ->  \* two cards of two notes in one deck, reviews of both
                [revlogs |-> <<[card_id |-> 1, state |-> 2, rating |-> 3],
                               [card_id |-> 2, state |-> 2, rating |-> 1],
                               [card_id |-> 1, state |-> 1, rating |-> 1]>>,
                 cards |-> {[card_id |-> 1, note_id |-> 1, deck_id |-> 1],
                            [card_id |-> 2, note_id |-> 2, deck_id |-> 1]},
                 decks |-> {[deck_id |-> 1, preset_id |-> 1]},
                 fault |-> "none"]
          [] u = 2 ->  \* cards and decks, but no review
                [revlogs |-> <<>>,
                 cards |-> {[card_id |-> 1, note_id |-> 1, deck_id |-> 1]},
                 decks |-> {[deck_id |-> 1, preset_id |-> 1]},
                 fault |-> "none"]
          [] u = 3 ->  \* the cards relation has no note_id column
                [revlogs |-> <<[card_id |-> 1, state |-> 2, rating |-> 3]>>,
                 cards |-> {[card_id |-> 1, note_id |-> 1, deck_id |-> 1]},
                 decks |-> {[deck_id |-> 1, preset_id |-> 1]},
                 fault |-> "no_note_id"]
          [] u = 4 ->  \* no review in state 2
                [revlogs |-> <<[card_id |-> 1, state |-> 1, rating |-> 3]>>,
                 cards |-> {[card_id |-> 1, note_id |-> 1, deck_id |-> 2]},
                 decks |-> {[deck_id |-> 2, preset_id |-> 1]},
                 fault |-> "none"]
          [] OTHER ->  \* the cards relation cannot be read
                [revlogs |-> <<[card_id |-> 1, state |-> 2, rating |-> 1]>>,
                 cards |-> {[card_id |-> 1, note_id |-> 1, deck_id |-> 1]},
                 decks |-> {[deck_id |-> 1, preset_id |-> 1]},
                 fault |-> "cards_unreadable"]]

\* every card, in every deck
AllCards == {[card_id |-> c, note_id |-> c, deck_id |-> 1] : c \in CardIds}

AllDecks == {[deck_id |-> 1, preset_id |-> 1]}

\* a store that holds slice s for user 1
StoreWith(s) == [u \in Users |-> IF u = 1 THEN s ELSE Catalogue[u]]

\* The slices of one user the per-user properties are checked on: any card
\* and deck relations under reviews (all of state 2, rated 3) of any cards;
\* any reviews under a complete card and deck relation; and the broken slices.
InitStore ==
    \/ \E cs \in SeqsUpTo(CardIds, MaxRevlogs),
          c \in SubsetsUpTo(CardRows, MaxCards),
          d \in SubsetsUpTo(DeckRows, MaxDecks) :
         store = StoreWith(
            [revlogs |-> [i \in 1..Len(cs) |->
                            [card_id |-> cs[i], state |-> 2, rating |-> 3]],
             cards |-> c, decks |-> d, fault |-> "none"])
    \/ \E r \in SeqsUpTo(RevlogRows, MaxRevlogs) :
         store = StoreWith(
            [revlogs |-> r, cards |-> AllCards, decks |-> AllDecks,
             fault |-> "none"])
    \/ \E u \in {3, 5},
          r \in SeqsUpTo([card_id : {1}, state : States, rating : {5}], 1) :
         store = StoreWith([Catalogue[u] EXCEPT !.revlogs = r])

\* before process_users is called: no argument bound, no task submitted,
\* the output file as an earlier run left it
InitRun ==
    /\ pc = "idle"
    /\ user_ids = <<>>
    /\ max_workers = 1
    /\ tpc = <<>>
    /\ df = <<>>
    /\ ran = <<>>
    /\ log = <<>>
    /\ future = <<>>
    /\ completion = <<>>
    /\ results = <<>>
    /\ file = StaleFile
    /\ wi = 0
    /\ returned = <<>>

\* the store of the catalogue
Init == store = Catalogue /\ InitRun

\* any slice of the store for user 1
InitUser == InitStore /\ InitRun

----------------------------------------------------------------------------
(* The tasks: get_avg_review_count(user_ids[i]) on a worker of the pool *)

Positions == 1..Len(user_ids)

Running(i) == tpc[i] \in {"revlogs", "cards", "decks", "join", "aggregate"}

\* the task returns `value' after printing `diags': its Future is resolved
Return(i, fut, diags) ==
    /\ future' = [future EXCEPT ![i] = fut]
    /\ tpc' = [tpc EXCEPT ![i] = "returned"]
    /\ completion' = Append(completion, i)
    /\ log' = [log EXCEPT ![i] = @ \o diags]

Resolved(value) == [done |-> TRUE, raised |-> FALSE, value |-> value]

\* the exception leaves the task and is stored in its Future
process_except_reraise == [done |-> TRUE, raised |-> TRUE, value |-> None]

\* lines 96-98: except Exception: print(...); return None
process_except == Resolved(None)

\* a failed load that puts the task back in the queue
after_load_none_retry == "queued"

\* lines 64-65: load_user_data returned None, so does the task
after_load_none == "returned"

\* load_user_data returns None (lines 18, 32, 40, 52, 57) and the task with it
Skip(i, diag) ==
    /\ future' = [future EXCEPT ![i] = IF after_load_none = "returned" THEN Resolved(None) ELSE @]
    /\ tpc' = [tpc EXCEPT ![i] = after_load_none]
    /\ completion' = IF after_load_none = "returned" THEN Append(completion, i) ELSE completion
    /\ log' = [log EXCEPT ![i] = Append(@, diag)]

\* a worker takes the oldest work item of the queue and calls the function
Start(i) ==
    /\ tpc[i] = "queued"
    /\ \A j \in 1..(i - 1) : tpc[j] # "queued"
    /\ Cardinality({j \in Positions : Running(j)}) < max_workers
    /\ tpc' = [tpc EXCEPT ![i] = "revlogs"]
    /\ UNCHANGED <<store, user_ids, max_workers, pc, df, ran, log, future,
                   completion, results, file, wi, returned>>

\* lines 15-26
FetchRevlogs(i) ==
    /\ tpc[i] = "revlogs"
    /\ ran' = [ran EXCEPT ![i] = @ \cup {"revlogs"}]
    /\ LET df_revlogs == read_revlogs(user_ids[i])
       IN  IF empty(df_revlogs)
           THEN /\ Skip(i, "No data found")
                /\ df' = df
           ELSE /\ df' = [df EXCEPT ![i].revlogs = with_review_th(df_revlogs)]
                /\ tpc' = [tpc EXCEPT ![i] = "cards"]
                /\ UNCHANGED <<log, future, completion>>
    /\ UNCHANGED <<store, user_ids, max_workers, pc, results, file, wi, returned>>

\* lines 29-34
FetchCards(i) ==
    /\ tpc[i] = "cards"
    /\ ran' = [ran EXCEPT ![i] = @ \cup {"cards"}]
    /\ IF store[user_ids[i]].fault = "cards_unreadable"
       THEN /\ Skip(i, "Error loading data")
            /\ df' = df
       ELSE LET df_cards == read_cards(user_ids[i])
            IN  IF empty_table(df_cards)
                THEN /\ Skip(i, "No card data found")
                     /\ df' = df
                ELSE /\ df' = [df EXCEPT ![i].cards = df_cards]
                     /\ tpc' = [tpc EXCEPT ![i] = "decks"]
                     /\ UNCHANGED <<log, future, completion>>
    /\ UNCHANGED <<store, user_ids, max_workers, pc, results, file, wi, returned>>

\* lines 37-42
FetchDecks(i) ==
    /\ tpc[i] = "decks"
    /\ ran' = [ran EXCEPT ![i] = @ \cup {"decks"}]
    /\ LET df_decks == read_decks(user_ids[i])
       IN  IF empty_table(df_decks)
           THEN /\ Skip(i, "No deck data found")
                /\ df' = df
           ELSE /\ df' = [df EXCEPT ![i].decks = df_decks]
                /\ tpc' = [tpc EXCEPT ![i] = "join"]
                /\ UNCHANGED <<log, future, completion>>
    /\ UNCHANGED <<store, user_ids, max_workers, pc, results, file, wi, returned>>

\* lines 46-54
Join(i) ==
    /\ tpc[i] = "join"
    /\ ran' = [ran EXCEPT ![i] = @ \cup {"join"}]
    /\ LET df_join == join(df[i].revlogs, df[i].cards, df[i].decks)
       IN  IF empty(df_join)
           THEN /\ Skip(i, "No joined data found")
                /\ df' = df
           ELSE /\ df' = [df EXCEPT ![i].join = df_join]
                /\ tpc' = [tpc EXCEPT ![i] = "aggregate"]
                /\ UNCHANGED <<log, future, completion>>
    /\ UNCHANGED <<store, user_ids, max_workers, pc, results, file, wi, returned>>

\* a mapping that raises on a rating it has no key for
aggregate_raises_on_unmapped(s, df_join) ==
    \/ s.fault = "no_note_id"
    \/ \E k \in 1..Len(df_join) :
        df_join[k].state = 2 /\ df_join[k].rating \notin {1, 2, 3, 4}

\* lines 68-83 raise: df_join["note_id"] is a KeyError when the cards have no
\* note_id column; nothing else in them raises, Series.map and mean do not
aggregate_raises(s, df_join) == s.fault = "no_note_id"

\* lines 67-98
Aggregate(i) ==
    /\ tpc[i] = "aggregate"
    /\ IF aggregate_raises(store[user_ids[i]], df[i].join)
       THEN Return(i, process_except, <<"Error processing user">>)
       ELSE Return(i, Resolved(result_record(user_ids[i], df[i].join)), <<>>)
    /\ UNCHANGED <<store, user_ids, max_workers, pc, df, ran, results, file,
                   wi, returned>>

----------------------------------------------------------------------------
(* process_users *)

\* results in the order the tasks finished
collect_order_as_completed == completion

\* executor.map yields the results in the order of its input
collect_order == [k \in Positions |-> k]

\* nothing filtered out
filter_none_keep_all(rs) == rs

\* [r for r in results if r is not None]
filter_none(rs) == SelectSeq(rs, LAMBDA r : r # None)

\* open(output_file, "w"): the file is truncated
open_w(f) == <<>>

\* lines 101-121: process_users(ids, max_workers=w) is called, the directory
\* is made and one task per input position submitted
Call(ids, w) ==
    /\ pc = "idle"
    /\ pc' = "collect"
    /\ user_ids' = ids
    /\ max_workers' = w
    /\ tpc' = [i \in 1..Len(ids) |-> "queued"]
    /\ df' = [i \in 1..Len(ids) |->
                [revlogs |-> <<>>, cards |-> {}, decks |-> {}, join |-> <<>>]]
    /\ ran' = [i \in 1..Len(ids) |-> {}]
    /\ log' = [i \in 1..Len(ids) |-> <<>>]
    /\ future' = [i \in 1..Len(ids) |-> Pending]
    /\ UNCHANGED <<store, completion, results, file, wi, returned>>

\* a call with any input list over the catalogue and any pool size
Submit ==
    /\ pc = "idle"
    /\ \E ids \in SeqsUpTo(Users, MaxUsers), w \in 1..MaxWorkers : Call(ids, w)

\* a call for user 1 alone
SubmitOne == Call(<<1>>, 1)

\* lines 119-125: list(...) takes the next result, waiting for its task; an
\* exception held by the Future is raised in process_users
Collect ==
    /\ pc = "collect"
    /\ Len(results) < Len(user_ids)
    /\ Len(results) < Len(collect_order)
    /\ LET fut == future[collect_order[Len(results) + 1]]
       IN  /\ fut.done
           /\ IF fut.raised
              THEN /\ pc' = "crashed"
                   /\ results' = results
              ELSE /\ pc' = pc
                   /\ results' = Append(results, fut.value)
    /\ UNCHANGED <<store, user_ids, max_workers, tpc, df, ran, log, future,
                   completion, file, wi, returned>>

\* lines 125-131: the pool is shut down (every task has returned), the None
\* results are dropped and the output file is opened
Filter ==
    /\ pc = "collect"
    /\ Len(results) = Len(user_ids)
    /\ \A i \in Positions : tpc[i] = "returned"
    /\ results' = filter_none(results)
    /\ file' = open_w(file)
    /\ wi' = 0
    /\ pc' = "write"
    /\ UNCHANGED <<store, user_ids, max_workers, tpc, df, ran, log, future,
                   completion, returned>>

\* lines 132-133: one pass of the write loop
WriteLine ==
    /\ pc = "write"
    /\ wi < Len(results)
    /\ file' = Append(file, json_dumps(results[wi + 1]))
    /\ wi' = wi + 1
    /\ UNCHANGED <<store, user_ids, max_workers, pc, tpc, df, ran, log, future,
                   completion, results, returned>>

\* lines 133-136: the file is closed and the results returned
Finish ==
    /\ pc = "write"
    /\ wi = Len(results)
    /\ pc' = "done"
    /\ returned' = results
    /\ UNCHANGED <<store, user_ids, max_workers, tpc, df, ran, log, future,
                   completion, results, file, wi>>

\* the steps of the tasks and of process_users after the call
Run ==
    \/ Collect
    \/ Filter
    \/ WriteLine
    \/ Finish
    \/ \E i \in Positions : Start(i)
    \/ \E i \in Positions : FetchRevlogs(i)
    \/ \E i \in Positions : FetchCards(i)
    \/ \E i \in Positions : FetchDecks(i)
    \/ \E i \in Positions : Join(i)
    \/ \E i \in Positions : Aggregate(i)

Next == Submit \/ Run

NextUser == SubmitOne \/ Run

\* process_users over the catalogue
Spec == Init /\ [][Next]_vars

\* the same run: the pool's threads and the calling thread are scheduled by
\* the operating system, so a step that can be taken is eventually taken
FairSpec == Init /\ [][Next]_vars /\ WF_vars(Next)

\* the pipeline of one user over every slice of the store
SpecUser == InitUser /\ [][NextUser]_vars

----------------------------------------------------------------------------
(* Notions the properties are stated in *)

\* the task of position i returned a result record
Succeeded(i) == future[i].done /\ ~future[i].raised /\ future[i].value # None

\* the task of position i returned the skip marker
Skipped(i) == future[i].done /\ ~future[i].raised /\ future[i].value = None

SuccessfulPositions == {i \in Positions : Succeeded(i)}

\* the user_ids of the successful positions, in input order
SuccessfulIds ==
    LET ps == SelectSeq([i \in Positions |-> i], LAMBDA i : Succeeded(i))
    IN  [k \in 1..Len(ps) |-> user_ids[ps[k]]]

\* h hundredths is p / n rounded to 2 decimals (whichever way a tie goes)
Rounds(h, p, n) ==
    /\ 2 * (h * n - 100 * p) <= n
    /\ 2 * (100 * p - h * n) <= n

\* x is the float p / n rounded to 2 decimals
IsRounded(x, p, n) == ~x.nan /\ x.den = 100 /\ Rounds(x.num, p, n)

UniqueCardIds(cards) ==
    \A c1, c2 \in cards : c1.card_id = c2.card_id => c1 = c2

UniqueDeckIds(decks) ==
    \A d1, d2 \in decks : d1.deck_id = d2.deck_id => d1 = d2

\* the reviews (by position in the user's reviews) whose card is in the
\* cards and whose card's deck is in the decks
Surviving(s) ==
    {k \in 1..Len(s.revlogs) :
        \E c \in s.cards :
            /\ c.card_id = s.revlogs[k].card_id
            /\ \E d \in s.decks : d.deck_id = c.deck_id}

\* the note of the card of review k
NoteOf(s, k) ==
    (CHOOSE c \in s.cards : c.card_id = s.revlogs[k].card_id).note_id

\* load_user_data of position i has made its join
JoinDone(i) == "join" \in ran[i] /\ tpc[i] \in {"aggregate", "returned"}

\* the stage of the per-user state machine position i is in
Status(i) ==
    IF /\ pc \in {"write", "done"}
       /\ Succeeded(i)
       /\ Cardinality({j \in 1..i : Succeeded(j)}) <= wi
    THEN "WRITTEN"
    ELSE IF tpc[i] = "returned"
         THEN IF future[i].value = None THEN "SKIPPED" ELSE "AGGREGATED"
         ELSE IF tpc[i] = "aggregate" THEN "LOADED" ELSE "PENDING"

TaskRank(p) ==
    CASE p = "new" -> 0
      [] p = "queued" -> 1
      [] p = "revlogs" -> 2
      [] p = "cards" -> 3
      [] p = "decks" -> 4
      [] p = "join" -> 5
      [] p = "aggregate" -> 6
      [] OTHER -> 7

----------------------------------------------------------------------------
(* C1 *)

\* C1: when process_users has finished, the user_ids of the lines of the
\* output file, and of the records of the returned list, are the user_ids of
\* the successful input positions in input order, whatever the pool size and
\* the order in which the tasks finished.
C1_OutputInInputOrder ==
    pc = "done" =>
        /\ Len(file) = Len(SuccessfulIds)
        /\ Len(returned) = Len(SuccessfulIds)
        /\ \A k \in 1..Len(SuccessfulIds) :
            /\ file[k].user_id = SuccessfulIds[k]
            /\ returned[k].user_id = SuccessfulIds[k]

\* two different successful users, the later one of the input finished first
C1_Witness ==
    /\ pc = "done"
    /\ \E a, b \in SuccessfulPositions :
        /\ a < b
        /\ user_ids[a] # user_ids[b]
        /\ \E m, n \in 1..Len(completion) :
            m < n /\ completion[m] = b /\ completion[n] = a

----------------------------------------------------------------------------
(* C2 *)

\* C2: when process_users has finished, the lines of the output file are
\* exactly the records of the positions whose task returned a record: one
\* line per successful position, none for a skipped one, nothing else.
C2_FileHoldsExactlySuccesses ==
    pc = "done" =>
        /\ Len(file) = Cardinality(SuccessfulPositions)
        /\ Range(file) = {json_dumps(future[i].value) : i \in SuccessfulPositions}
        /\ \A i \in Positions : Skipped(i) \/ Succeeded(i)

\* a finished run with a skipped and a successful position
C2_Witness ==
    /\ pc = "done"
    /\ \E i, j \in Positions : Skipped(i) /\ Succeeded(j)

----------------------------------------------------------------------------
(* C3 *)

AllSkipped == \A i \in Positions : Skipped(i)

\* C3: whatever mix of not-found users, load errors and aggregation errors
\* the tasks hit, process_users never stops on an exception of a task and
\* reaches the end of its write phase; when every user was skipped, the file
\* is then empty and so is the returned list.
C3_RunCompletes ==
    /\ [](pc # "crashed")
    /\ <>(pc = "done" /\ (AllSkipped => file = <<>> /\ returned = <<>>))

\* a finished run whose users all failed, one at load and one at aggregation
C3_Witness ==
    /\ pc = "done"
    /\ AllSkipped
    /\ file = <<>>
    /\ \E i, j \in Positions :
        /\ log[i] = <<"Error processing user">>
        /\ log[j] \in {<<"Error loading data">>, <<"No data found">>}

----------------------------------------------------------------------------
(* C4 *)

\* the slice of the store the task of position i works on
Slice(i) == store[user_ids[i]]

\* C4: for a user with unique card_ids and unique deck_ids, the joined set
\* holds each review whose card is among the cards and whose card's deck is
\* among the decks exactly once, and no other review; the record's
\* revlogs_count, card_count, note_count and two averages are those of these
\* reviews alone.
C4_JoinKeepsExactlyMatchedReviews ==
    \A i \in Positions :
        LET s == Slice(i)
            keep == Surviving(s)
            cards == {s.revlogs[k].card_id : k \in keep}
            notes == {NoteOf(s, k) : k \in keep}
        IN  (JoinDone(i) /\ UniqueCardIds(s.cards) /\ UniqueDeckIds(s.decks)) =>
                /\ Len(df[i].join) = Cardinality(keep)
                /\ {row.review_th : row \in Range(df[i].join)} = keep
                /\ Succeeded(i) =>
                    LET r == future[i].value
                    IN  /\ r.revlogs_count = Cardinality(keep)
                        /\ r.card_count = Cardinality(cards)
                        /\ r.note_count = Cardinality(notes)
                        /\ IsRounded(r.avg_review_count_per_card,
                                     Cardinality(keep), Cardinality(cards))
                        /\ IsRounded(r.avg_review_count_per_note,
                                     Cardinality(keep), Cardinality(notes))

\* a record made after a review was dropped because its card's deck is
\* missing, while another review was kept
C4_Witness ==
    \E i \in Positions :
        LET s == Slice(i)
        IN  /\ Succeeded(i)
            /\ UniqueCardIds(s.cards) /\ UniqueDeckIds(s.decks)
            /\ Surviving(s) # {}
            /\ \E k \in 1..Len(s.revlogs) :
                \E c \in s.cards :
                    /\ c.card_id = s.revlogs[k].card_id
                    /\ \A d \in s.decks : d.deck_id # c.deck_id
            /\ future[i].value.revlogs_count < Len(s.revlogs)

----------------------------------------------------------------------------
(* C5 *)

\* the first stage of load_user_data that comes out empty, "none" if none
FirstEmpty(s) ==
    IF s.revlogs = <<>> THEN "revlogs"
    ELSE IF s.cards = {} THEN "cards"
    ELSE IF s.decks = {} THEN "decks"
    ELSE IF Surviving(s) = {} THEN "join"
    ELSE "none"

\* the stages load_user_data runs when stage e is the first empty one
StagesUpTo(e) ==
    CASE e = "revlogs" -> {"revlogs"}
      [] e = "cards" -> {"revlogs", "cards"}
      [] e = "decks" -> {"revlogs", "cards", "decks"}
      [] OTHER -> {"revlogs", "cards", "decks", "join"}

\* the diagnostic that names stage e
NotFoundDiag(e) ==
    CASE e = "revlogs" -> "No data found"
      [] e = "cards" -> "No card data found"
      [] e = "decks" -> "No deck data found"
      [] OTHER -> "No joined data found"

\* every relation up to the first empty stage can be read
ReadableUpTo(s, e) == s.fault = "cards_unreadable" => e = "revlogs"

\* C5: load_user_data never runs a stage after the first empty one (in the
\* order reviews, cards, decks, join); once the task of a user with an empty
\* stage has returned, it returned None and printed exactly one diagnostic,
\* the one that names the first empty stage ("No data found" when the user
\* has no review, whatever the cards and decks hold).
C5_StopsAtFirstEmptyStage ==
    \A i \in Positions :
        LET s == Slice(i)
            e == FirstEmpty(s)
        IN  (e # "none" /\ ReadableUpTo(s, e)) =>
                /\ ran[i] \subseteq StagesUpTo(e)
                /\ tpc[i] = "returned" =>
                    /\ Skipped(i)
                    /\ log[i] = <<NotFoundDiag(e)>>
                    /\ ran[i] = StagesUpTo(e)

\* a user with cards and decks but no review has been skipped
C5_Witness ==
    \E i \in Positions :
        /\ Slice(i).revlogs = <<>>
        /\ Slice(i).cards # {}
        /\ Slice(i).decks # {}
        /\ tpc[i] = "returned"
        /\ log[i] = <<"No data found">>

----------------------------------------------------------------------------
(* C6 *)

\* the rows of the joined set of position i in state 2
ReviewRows(i) == {k \in 1..Len(df[i].join) : df[i].join[k].state = 2}

\* those of them whose rating the mapping knows
MappedRows(i) == {k \in ReviewRows(i) : df[i].join[k].rating \in {1, 2, 3, 4}}

\* those of them rated a pass
PassRows(i) == {k \in ReviewRows(i) : df[i].join[k].rating \in {2, 3, 4}}

\* the task of position i has returned from the aggregation of a joined set
Aggregated(i) == tpc[i] = "returned" /\ JoinDone(i) /\ df[i].join # <<>>

\* position i has no line in the file and no record in the returned list
NotInOutput(i) ==
    /\ \A k \in 1..Len(file) : file[k].user_id # user_ids[i]
    /\ \A k \in 1..Len(returned) : returned[k].user_id # user_ids[i]

\* C6 as stated: a failure of the aggregation, such as a rating among the
\* state 2 rows that is none of 1, 2, 3, 4, is reported as an aggregation
\* error and the user is skipped.
C6_UnmappedRatingSkipsUser ==
    \A i \in Positions :
        (/\ Aggregated(i)
         /\ \/ Slice(i).fault = "no_note_id"
            \/ ReviewRows(i) # MappedRows(i)) =>
            /\ Skipped(i)
            /\ log[i] = <<"Error processing user">>
            /\ pc = "done" => NotInOutput(i)

\* C6 amended: an exception raised while the statistics are computed (here
\* the KeyError of a missing note_id column) is reported as an aggregation
\* error and the user is skipped, with no record returned or written; a
\* rating that is none of 1, 2, 3, 4 raises nothing, and its user gets a
\* record, which is written.
C6_AggregationErrorSkipsUser ==
    \A i \in Positions :
        /\ (Aggregated(i) /\ Slice(i).fault = "no_note_id") =>
            /\ Skipped(i)
            /\ log[i] = <<"Error processing user">>
            /\ pc = "done" => NotInOutput(i)
        /\ (Aggregated(i) /\ Slice(i).fault = "none"
                /\ ReviewRows(i) # MappedRows(i)) =>
            /\ Succeeded(i)
            /\ log[i] = <<>>
            /\ pc = "done" => \E k \in 1..Len(file) :
                                file[k] = json_dumps(future[i].value)

\* a finished run that skipped a user whose aggregation raised
C6_Witness ==
    \E i \in Positions :
        /\ pc = "done"
        /\ Aggregated(i)
        /\ Slice(i).fault = "no_note_id"
        /\ log[i] = <<"Error processing user">>
        /\ file = <<>>

----------------------------------------------------------------------------
(* C7 *)

\* C7 as stated: with at least one state 2 row, retention_rate is the number
\* of state 2 rows rated 2, 3 or 4 over the number of state 2 rows, rounded to
\* 2 decimals; it lies in [0, 1] and is 0.0 when every state 2 row is rated 1.
C7_RetentionOverReviewRows ==
    \A i \in Positions :
        (Succeeded(i) /\ ReviewRows(i) # {}) =>
            LET x == future[i].value.retention_rate
            IN  /\ IsRounded(x, Cardinality(PassRows(i)), Cardinality(ReviewRows(i)))
                /\ 0 <= x.num /\ x.num <= 100
                /\ (\A k \in ReviewRows(i) : df[i].join[k].rating = 1) => x.num = 0

\* C7 amended: with at least one state 2 row rated 1, 2, 3 or 4,
\* retention_rate is the number of state 2 rows rated 2, 3 or 4 over the
\* number of state 2 rows rated 1, 2, 3 or 4, rounded to 2 decimals; rows of
\* another state never count; it lies in [0, 1] and is 0.0 when none of
\* these rows is a pass.
C7_RetentionOverMappedReviewRows ==
    \A i \in Positions :
        (Succeeded(i) /\ MappedRows(i) # {}) =>
            LET x == future[i].value.retention_rate
            IN  /\ IsRounded(x, Cardinality(PassRows(i)), Cardinality(MappedRows(i)))
                /\ 0 <= x.num /\ x.num <= 100
                /\ PassRows(i) = {} => x.num = 0

\* a retention of 0.5 from a failed and a passed state 2 row, beside a passed
\* row of another state
C7_Witness ==
    \E i \in Positions :
        /\ Succeeded(i)
        /\ Cardinality(MappedRows(i)) = 2
        /\ Cardinality(PassRows(i)) = 1
        /\ \E k \in 1..Len(df[i].join) :
            df[i].join[k].state # 2 /\ df[i].join[k].rating = 3
        /\ future[i].value.retention_rate = Float(50, 100)

----------------------------------------------------------------------------
(* C8 *)

\* C8: in every record, avg_review_count_per_card and
\* avg_review_count_per_note are numbers, at least 1 and at most
\* revlogs_count.
C8_AveragesBetweenOneAndCount ==
    \A i \in Positions :
        Succeeded(i) =>
            LET r == future[i].value
            IN  \A x \in {r.avg_review_count_per_card, r.avg_review_count_per_note} :
                    /\ ~x.nan
                    /\ x.den = 100
                    /\ 100 <= x.num
                    /\ x.num <= 100 * r.revlogs_count

\* three reviews of two cards of one note: 1.5 per card, 3.0 per note
C8_Witness ==
    \E i \in Positions :
        /\ Succeeded(i)
        /\ future[i].value.revlogs_count = 3
        /\ future[i].value.avg_review_count_per_card = Float(150, 100)
        /\ future[i].value.avg_review_count_per_note = Float(300, 100)

----------------------------------------------------------------------------
(* C9 *)

\* the moves of the per-user state machine; SKIPPED is entered at the point
\* of failure, from PENDING (the load failed) or LOADED (the aggregation did)
StatusMoves ==
    {<<"PENDING", "LOADED">>, <<"LOADED", "AGGREGATED">>,
     <<"AGGREGATED", "WRITTEN">>, <<"PENDING", "SKIPPED">>,
     <<"LOADED", "SKIPPED">>}

\* what a step may do to position i
StatusStep(i) ==
    /\ Status(i)' # Status(i) => <<Status(i), Status(i)'>> \in StatusMoves
    /\ TaskRank(tpc'[i]) >= TaskRank(tpc[i])
    /\ (Status(i)' = "WRITTEN" /\ Status(i) # "WRITTEN") =>
            \A j \in Positions : future[j].done

----------------------------------------------------------------------------
(* C10 *)

\* C10: a user of a well-formed store whose joined set is not empty and has
\* no state 2 row is not skipped: the record has NaN as its retention_rate
\* and every other field as for any joined set, and the record is written to
\* the output file, NaN included.
C10_NoReviewRowsGivesNaNRecord ==
    \A i \in Positions :
        (Aggregated(i) /\ Slice(i).fault = "none" /\ ReviewRows(i) = {}) =>
            /\ Succeeded(i)
            /\ LET r == future[i].value
                   j == df[i].join
                   cards == {j[k].card_id : k \in 1..Len(j)}
                   notes == {j[k].note_id : k \in 1..Len(j)}
               IN  /\ r.retention_rate.nan
                   /\ r.user_id = user_ids[i]
                   /\ r.revlogs_count = Len(j)
                   /\ r.card_count = Cardinality(cards)
                   /\ r.note_count = Cardinality(notes)
                   /\ IsRounded(r.avg_review_count_per_card, Len(j), Cardinality(cards))
                   /\ IsRounded(r.avg_review_count_per_note, Len(j), Cardinality(notes))
            /\ pc = "done" =>
                \E k \in 1..Len(file) :
                    /\ file[k] = json_dumps(future[i].value)
                    /\ file[k].retention_rate.tok = "NaN"

\* a finished run that wrote the record of a user with no state 2 row
C10_Witness ==
    \E i \in Positions :
        /\ pc = "done"
        /\ Succeeded(i)
        /\ ReviewRows(i) = {}
        /\ Len(df[i].join) >= 2
        /\ Len(file) = 1
        /\ file[1].retention_rate.tok = "NaN"

====
